---- MODULE Spec2Model ----
(***************************************************************************)
(* FlightTracer (flight_tracer/core.py): the trace retrieval and leg       *)
(* reconstruction pipeline.                                                 *)
(*                                                                          *)
(*   __init__ -> generate_urls -> fetch_trace_data (per pair) -> get_traces *)
(*            -> process_flight_data -> create_linestrings                  *)
(*                                                                          *)
(* A DataFrame is a record [columns, rows]: rows is the sequence of rows in *)
(* positional order and every row carries its index label in "idx".  The    *)
(* pandas operations are modelled as pandas 2.x performs them: an           *)
(* assignment of a Series to a column aligns on index labels, a groupby     *)
(* leaves rows with a missing key out of every group, sort_values on        *)
(* several columns is a stable lexicographic sort.                          *)
(***************************************************************************)
EXTENDS Integers, Sequences, FiniteSets, TLC

VARIABLES
    given,          \* the aircraft_ids argument the constructor was called with
    aircraft_ids,   \* self.aircraft_ids
    start_date,     \* arguments of the running generate_urls / get_traces call
    end_date,
    recent,
    urls,           \* list of (url, icao) built by generate_urls
    pos,            \* position of the for loop of get_traces in urls
    served,         \* what the data source answered for each pair fetched so far
    traces,         \* get_traces: the list of collected trace DataFrames
    log,            \* get_traces: the line printed for each pair
    raw_df,         \* the DataFrame get_traces returned
    mapping_info,   \* arguments of the last process_flight_data call
    threshold,
    filter_ground,
    gdf,            \* the GeoDataFrame process_flight_data returned
    flight_leg_column,  \* arguments of the last create_linestrings call
    point_time_column,
    gdf_lines,      \* the GeoDataFrame create_linestrings returned
    error,          \* the exception that escaped the running call, "" if none
    pc              \* where the caller is

vars == <<given, aircraft_ids, start_date, end_date, recent, urls, pos, served, traces,
          log, raw_df, mapping_info, threshold, filter_ground, gdf,
          flight_leg_column,
          point_time_column, gdf_lines, error, pc>>

----------------------------------------------------------------------------
(* Bounds of the model *)

\* aircraft identifiers handed to the constructor
MaxAircraft == 2
\* pairs a get_traces call may fetch
MaxPairs == 2
\* pings in one fetched payload
MaxTrace == 2
\* rows of a table handed to process_flight_data directly
MaxRows == 3

----------------------------------------------------------------------------
(* Strings: str.strip, str.lower, comparison *)

Whitespace == {" ", "\t", "\n"}

UpperCase == "ABCDEFGHIJKLMNOPQRSTUVWXYZ"
LowerCase == "abcdefghijklmnopqrstuvwxyz"

\* the characters the model's strings are made of, in code point order
CodePoints == "\t\n 0123456789ABCDEFGHIJKLMNOPQRSTUVWXYZ_abcdefghijklmnopqrstuvwxyz"

CharAt(s, i) == SubSeq(s, i, i)

Ord(c) == CHOOSE i \in 1..Len(CodePoints) : CharAt(CodePoints, i) = c

LowerChar(c) ==
    IF \E i \in 1..Len(UpperCase) : CharAt(UpperCase, i) = c
    THEN CharAt(LowerCase, CHOOSE i \in 1..Len(UpperCase) : CharAt(UpperCase, i) = c)
    ELSE c

RECURSIVE Lower(_)
Lower(s) == IF s = "" THEN "" ELSE LowerChar(Head(s)) \o Lower(Tail(s))

RECURSIVE LStrip(_)
LStrip(s) == IF s # "" /\ Head(s) \in Whitespace THEN LStrip(Tail(s)) ELSE s

RECURSIVE RStrip(_)
RStrip(s) ==
    IF s # "" /\ CharAt(s, Len(s)) \in Whitespace
    THEN RStrip(SubSeq(s, 1, Len(s) - 1))
    ELSE s

Strip(s) == RStrip(LStrip(s))

\* s < t for Python strings
RECURSIVE StrLess(_, _)
StrLess(s, t) ==
    IF t = "" THEN FALSE
    ELSE IF s = "" THEN TRUE
    ELSE IF Head(s) # Head(t) THEN Ord(Head(s)) < Ord(Head(t))
    ELSE StrLess(Tail(s), Tail(t))

\* s[-2:]
LastTwo(s) == SubSeq(s, IF Len(s) > 2 THEN Len(s) - 1 ELSE 1, Len(s))

----------------------------------------------------------------------------
(* datetime.date *)

Date(y, m, d) == [year |-> y, month |-> m, day |-> d]

\* the absent date of get_traces(recent=True)
NoDate == Date(0, 0, 0)

IsLeap(y) == (y % 4 = 0) /\ ((y % 100 # 0) \/ (y % 400 = 0))

DaysInMonth(y, m) ==
    IF m = 2 THEN (IF IsLeap(y) THEN 29 ELSE 28)
    ELSE IF m \in {4, 6, 9, 11} THEN 30 ELSE 31

\* current_date += timedelta(days=1)
NextDay(dt) ==
    IF dt.day < DaysInMonth(dt.year, dt.month) THEN Date(dt.year, dt.month, dt.day + 1)
    ELSE IF dt.month < 12 THEN Date(dt.year, dt.month + 1, 1)
    ELSE Date(dt.year + 1, 1, 1)

\* the range taken without its last day
DateLE_Exclusive(a, b) ==
    \/ a.year < b.year
    \/ a.year = b.year /\ a.month < b.month
    \/ a.year = b.year /\ a.month = b.month /\ a.day < b.day

\* a <= b for dates
DateLE(a, b) ==
    \/ a.year < b.year
    \/ a.year = b.year /\ a.month < b.month
    \/ a.year = b.year /\ a.month = b.month /\ a.day <= b.day

\* the number without its leading zero
Pad2_Unpadded(n) == ToString(n)

\* strftime("%m"), strftime("%d"): two digits
Pad2(n) == IF n < 10 THEN "0" \o ToString(n) ELSE ToString(n)

\* strftime("%Y"): the C library's %Y, which on Linux writes the year without
\* leading zeros (date(987, 1, 9) gives "987")
YearText(n) == ToString(n)

----------------------------------------------------------------------------
(* __init__ and generate_urls *)

\* identifiers lower-cased but not trimmed
CanonicalIds_LowerOnly(ids) == [i \in 1..Len(ids) |-> Lower(ids[i])]

\* [ac.strip().lower() for ac in aircraft_ids]
CanonicalIds(ids) == [i \in 1..Len(ids) |-> Lower(Strip(ids[i]))]

\* FlightTracer(aircraft_ids=ids) with no meta_url; ids is <<>> for None and
\* for the empty list, which the elif takes alike
FlightTracer(ids) ==
    IF ids # <<>>
    THEN [error |-> "", aircraft_ids |-> CanonicalIds(ids)]
    ELSE [error |-> "ValueError", aircraft_ids |-> <<>>]

base_url_recent == "https://globe.adsbexchange.com/data/traces/"
base_url_historical == "https://globe.adsbexchange.com/globe_history/"

RecentUrl(icao) ==
    base_url_recent \o LastTwo(icao) \o "/trace_full_" \o icao \o ".json"

HistoricalUrl(icao, dt) ==
    base_url_historical \o YearText(dt.year) \o "/" \o Pad2(dt.month) \o "/"
        \o Pad2(dt.day) \o "/traces/" \o LastTwo(icao) \o "/trace_full_"
        \o icao \o ".json"

\* the while loop over current_date for one aircraft
RECURSIVE DayUrls(_, _, _)
DayUrls(icao, current_date, last) ==
    IF DateLE(current_date, last)
    THEN <<[url |-> HistoricalUrl(icao, current_date), icao |-> icao]>>
            \o DayUrls(icao, NextDay(current_date), last)
    ELSE <<>>

\* the for loop over self.aircraft_ids
RECURSIVE generate_urls(_, _, _, _)
generate_urls(ids, first, last, rec) ==
    IF ids = <<>> THEN <<>>
    ELSE (IF rec
          THEN <<[url |-> RecentUrl(Head(ids)), icao |-> Head(ids)]>>
          ELSE DayUrls(Head(ids), first, last))
         \o generate_urls(Tail(ids), first, last, rec)

----------------------------------------------------------------------------
(* DataFrames *)

\* NaN / NaT in a numeric or datetime column (every number of the model is >= 0)
NaN == -1
\* NaN in a column of strings
NaNStr == "<NaN>"

DataFrame(cols, rws) == [columns |-> cols, rows |-> rws]

\* pd.DataFrame() and the absent result None
EmptyFrame == DataFrame({}, <<>>)

\* the order of a stable sort: before is a strict weak order on the positions
\* of s, <<j, i>> \in before when the row at j sorts before the row at i
StableSort(s, before) ==
    LET rank(i) == Cardinality({j \in 1..Len(s) :
                        \/ <<j, i>> \in before
                        \/ <<i, j>> \notin before /\ j < i}) + 1
    IN  [k \in 1..Len(s) |-> s[CHOOSE i \in 1..Len(s) : rank(i) = k]]

\* pd.concat(frames): the rows of the frames, one frame after the other
RECURSIVE Concat(_)
Concat(frames) ==
    IF frames = <<>> THEN <<>> ELSE Head(frames).rows \o Concat(Tail(frames))

\* reset_index(drop=True)
ResetIndex(rws) == [i \in 1..Len(rws) |-> [rws[i] EXCEPT !.idx = i - 1]]

----------------------------------------------------------------------------
(* fetch_trace_data *)

DEFAULT_COLUMNS == {"time", "lat", "lon", "altitude", "ground_speed", "heading",
                    "unknown1", "baro_rate", "details", "code", "alt_geom",
                    "unknown2", "unknown3", "unknown4"}
DROP_COLUMNS == {"unknown1", "code", "baro_rate", "unknown2", "unknown3", "unknown4"}

TraceColumns ==
    (DEFAULT_COLUMNS \ DROP_COLUMNS)
        \cup {"nnumber", "model", "desc", "timestamp", "ping_time", "icao"}

\* the fields of the payload that fetch_trace_data reads after "trace"
MetaKeys == {"r", "t", "desc", "timestamp"}

\* timestamp + pd.to_timedelta(time, unit="s")
AddSeconds(ts, t) == IF ts = NaN \/ t = NaN THEN NaN ELSE ts + t

\* one row of trace_df: the positional fields of a ping that the pipeline
\* reads, the payload's timestamp, the ping time and the aircraft id
TraceRow(ping, i, ts, icao) ==
    [idx |-> i - 1, time |-> ping.time, lat |-> ping.lat, lon |-> ping.lon,
     altitude |-> ping.altitude, details |-> ping.details,
     timestamp |-> ts, ping_time |-> AddSeconds(ts, ping.time), icao |-> icao]

\* a fetch that raises for a status other than 200 (raise_for_status)
fetch_trace_data_RaiseForStatus(response, icao) ==
    IF response.failed
    THEN [error |-> "ConnectionError", none |-> TRUE, df |-> EmptyFrame]
    ELSE IF response.status_code # 200
    THEN [error |-> "HTTPError", none |-> TRUE, df |-> EmptyFrame]
    ELSE IF response.data.keys # {} /\ "trace" \in response.data.keys
    THEN IF MetaKeys \subseteq response.data.keys
         THEN [error |-> "", none |-> FALSE,
               df |-> DataFrame(TraceColumns,
                        [i \in 1..Len(response.data.trace) |->
                            TraceRow(response.data.trace[i], i,
                                     response.data.timestamp, icao)])]
         ELSE [error |-> "KeyError", none |-> TRUE, df |-> EmptyFrame]
    ELSE [error |-> "", none |-> TRUE, df |-> EmptyFrame]

\* response: [failed, status_code, data], data: [keys, timestamp, trace];
\* failed is requests.get raising instead of returning a response
fetch_trace_data(response, icao) ==
    IF response.failed
    THEN [error |-> "ConnectionError", none |-> TRUE, df |-> EmptyFrame]
    ELSE IF response.status_code = 200
            /\ response.data.keys # {} /\ "trace" \in response.data.keys
    THEN IF MetaKeys \subseteq response.data.keys
         THEN [error |-> "", none |-> FALSE,
               df |-> DataFrame(TraceColumns,
                        [i \in 1..Len(response.data.trace) |->
                            TraceRow(response.data.trace[i], i,
                                     response.data.timestamp, icao)])]
         ELSE [error |-> "KeyError", none |-> TRUE, df |-> EmptyFrame]
    ELSE [error |-> "", none |-> TRUE, df |-> EmptyFrame]

----------------------------------------------------------------------------
(* get_traces *)

\* trace_df is not None and not trace_df.empty
HasData(res) == ~res.none /\ res.df.rows # <<>>

TimestampBefore(a, b) == a.timestamp < b.timestamp

\* the collected rows left in the order of collection
SortByTimestamp_AsCollected(rws) == rws

\* sort_values("timestamp"): kind="quicksort", which numpy runs as an
\* insertion sort on arrays of up to 16 elements, so rows with equal
\* timestamps keep their order; the tables of the model are within that size
SortByTimestamp(rws) ==
    StableSort(rws, {p \in (1..Len(rws)) \X (1..Len(rws)) :
                        TimestampBefore(rws[p[1]], rws[p[2]])})

\* pd.concat(traces).reset_index(drop=True).sort_values("timestamp"),
\* or pd.DataFrame() when nothing was collected
Aggregate(frames) ==
    IF frames # <<>>
    THEN DataFrame(TraceColumns, SortByTimestamp(ResetIndex(Concat(frames))))
    ELSE EmptyFrame

----------------------------------------------------------------------------
(* process_flight_data *)

\* the columns the first statement sorts by
SortColumns == {"icao", "timestamp", "time"}

\* output_columns
OutputColumns == {"point_time", "altitude", "ground_speed", "heading", "lat", "lon",
                  "icao", "call_sign", "leg_id", "flight_leg"}

\* a < b in one sort key, missing values last (na_position="last")
NumBefore(a, b) == a # NaN /\ (b = NaN \/ a < b)

\* df.sort_values(['icao', 'timestamp', 'time']): lexicographic and stable
ProcessingBefore(a, b) ==
    \/ StrLess(a.icao, b.icao)
    \/ a.icao = b.icao /\ NumBefore(a.timestamp, b.timestamp)
    \/ a.icao = b.icao /\ a.timestamp = b.timestamp /\ NumBefore(a.time, b.time)

SortForProcessing(rws) ==
    StableSort(rws, {p \in (1..Len(rws)) \X (1..Len(rws)) :
                        ProcessingBefore(rws[p[1]], rws[p[2]])})

\* pd.to_numeric(errors="coerce") then dropna(subset=["time"])
DropNaTime(rws) == SelectSeq(rws, LAMBDA r : r.time # NaN)

\* pd.json_normalize(df["details"])["flight"].str.strip(): one value per
\* position, NaN where the details hold no flight
FlightOf(r) ==
    IF "flight" \in DOMAIN r.details THEN Strip(r.details.flight) ELSE NaNStr

\* "flight" in details_df.columns
HasFlightColumn(rws) == \E i \in 1..Len(rws) : "flight" \in DOMAIN rws[i].details

\* .ffill().fillna("UNKNOWN") over the positions 1..Len(rws)
FilledFlights(rws) ==
    [i \in 1..Len(rws) |->
        LET seen == {j \in 1..i : FlightOf(rws[j]) # NaNStr}
        IN  IF seen = {} THEN "UNKNOWN"
            ELSE FlightOf(rws[CHOOSE j \in seen : \A k \in seen : k <= j])]

\* df["call_sign"] = <Series indexed 0..n-1>: the row labelled L takes the
\* value at label L of the Series, NaN when the Series has no such label
CallSignOf(rws, i) ==
    IF ~HasFlightColumn(rws) THEN "UNKNOWN"
    ELSE IF rws[i].idx + 1 \in 1..Len(rws) THEN FilledFlights(rws)[rws[i].idx + 1]
    ELSE NaNStr

WithCallSign(rws, hasDetails) ==
    [i \in 1..Len(rws) |->
        [idx |-> rws[i].idx, icao |-> rws[i].icao, altitude |-> rws[i].altitude,
         lat |-> rws[i].lat, lon |-> rws[i].lon,
         point_time |-> AddSeconds(rws[i].timestamp, rws[i].time),
         call_sign |-> IF hasDetails THEN CallSignOf(rws, i) ELSE "UNKNOWN"]]

\* groupby(["icao", "call_sign"]): rows with a missing key are in no group
SameGroup(a, b) ==
    a.call_sign # NaNStr /\ b.call_sign # NaNStr
        /\ a.icao = b.icao /\ a.call_sign = b.call_sign

\* the positions before i of the rows in the group of row i
Earlier(rws, i) == {j \in 1..(i - 1) : SameGroup(rws[j], rws[i])}

\* a boundary already at a gap equal to the threshold
NewLeg_AtThreshold(rws, i, thr) ==
    /\ Earlier(rws, i) # {}
    /\ rws[i].point_time # NaN
    /\ LET j == CHOOSE j \in Earlier(rws, i) : \A k \in Earlier(rws, i) : k <= j
       IN  rws[j].point_time # NaN /\ rws[i].point_time - rws[j].point_time >= thr

\* (groupby(...)["point_time"].diff().dt.total_seconds() > threshold_seconds)
NewLeg(rws, i, thr) ==
    /\ Earlier(rws, i) # {}
    /\ rws[i].point_time # NaN
    /\ LET j == CHOOSE j \in Earlier(rws, i) : \A k \in Earlier(rws, i) : k <= j
       IN  rws[j].point_time # NaN /\ rws[i].point_time - rws[j].point_time > thr

\* groupby(...)["new_leg"].cumsum() + 1, NaN for a row in no group
LegId(rws, i, thr) ==
    IF rws[i].call_sign = NaNStr THEN NaN
    ELSE Cardinality({j \in Earlier(rws, i) \cup {i} : NewLeg(rws, j, thr)}) + 1

\* the cumsum is computed in float64 when the groupby dropped a row
LegIdIsFloat(rws) == \E i \in 1..Len(rws) : rws[i].call_sign = NaNStr

\* df["leg_id"].astype(str)
LegIdStr(n, isFloat) ==
    IF n = NaN THEN "nan"
    ELSE IF isFloat THEN ToString(n) \o ".0" ELSE ToString(n)

\* df["call_sign"].fillna("UNKNOWN") + "_leg" + df["leg_id"].astype(str)
FlightLeg(call_sign, leg_id, isFloat) ==
    (IF call_sign = NaNStr THEN "UNKNOWN" ELSE call_sign)
        \o "_leg" \o LegIdStr(leg_id, isFloat)

WithLegs(rws, thr) ==
    [i \in 1..Len(rws) |->
        [idx |-> rws[i].idx, point_time |-> rws[i].point_time,
         altitude |-> rws[i].altitude, lat |-> rws[i].lat, lon |-> rws[i].lon,
         icao |-> rws[i].icao, call_sign |-> rws[i].call_sign,
         leg_id |-> LegId(rws, i, thr),
         flight_leg |-> FlightLeg(rws[i].call_sign, LegId(rws, i, thr),
                                  LegIdIsFloat(rws)),
         geometry |-> <<rws[i].lon, rws[i].lat>>]]

\* a ground filter that drops nothing
DropGround_KeepAll(rws) == rws

\* df.query('altitude != "ground"')
DropGround(rws) == SelectSeq(rws, LAMBDA r : r.altitude # "ground")

\* lines 155-183: the table with its legs, before the ground filter
Segmented(df, thr) ==
    WithLegs(WithCallSign(DropNaTime(SortForProcessing(df.rows)),
                          "details" \in df.columns), thr)

\* the ground filter applied before the legs are computed
process_flight_data_FilterFirst(df, fg, thr) ==
    IF ~(SortColumns \subseteq df.columns) \/ ~(OutputColumns \subseteq
            (df.columns \cup {"point_time", "call_sign", "leg_id", "flight_leg"}))
    THEN [error |-> "KeyError", gdf |-> EmptyFrame]
    ELSE [error |-> "",
          gdf |-> DataFrame(OutputColumns \cup {"geometry"},
                    Segmented(IF fg THEN DataFrame(df.columns, DropGround(df.rows))
                              ELSE df, thr))]

process_flight_data(df, fg, thr) ==
    IF ~(SortColumns \subseteq df.columns) \/ ~(OutputColumns \subseteq
            (df.columns \cup {"point_time", "call_sign", "leg_id", "flight_leg"}))
    THEN [error |-> "KeyError", gdf |-> EmptyFrame]
    ELSE [error |-> "",
          gdf |-> DataFrame(OutputColumns \cup {"geometry"},
                    IF fg THEN DropGround(Segmented(df, thr))
                    ELSE Segmented(df, thr))]

----------------------------------------------------------------------------
(* create_linestrings *)

PointTimeBefore(a, b, ptc) == NumBefore(a[ptc], b[ptc])

\* the group left in the order of the table
SortByPointTime_Unsorted(rws, ptc) == rws

\* group.sort_values(point_time_column): rows with equal times keep their
\* order (see SortByTimestamp)
SortByPointTime(rws, ptc) ==
    StableSort(rws, {p \in (1..Len(rws)) \X (1..Len(rws)) :
                        PointTimeBefore(rws[p[1]], rws[p[2]], ptc)})

\* LineString(points) if len(points) > 1 else points[0]
Geometry(points) ==
    IF Len(points) > 1 THEN [type |-> "LineString", coords |-> points]
    ELSE [type |-> "Point", coords |-> points]

\* the keys of gdf.groupby(flight_leg_column), in sorted order
GroupKeys(rws, flc) ==
    LET keys == {rws[i][flc] : i \in 1..Len(rws)}
        rank(k) == Cardinality({h \in keys : StrLess(h, k)}) + 1
    IN  [n \in 1..Cardinality(keys) |-> CHOOSE k \in keys : rank(k) = n]

LegRecord(rws, key, flc, ptc) ==
    LET group == SortByPointTime(SelectSeq(rws, LAMBDA r : r[flc] = key), ptc)
    IN  [flight_leg |-> key, icao |-> group[1].icao,
         call_sign |-> group[1].call_sign, leg_id |-> group[1].leg_id,
         geometry |-> Geometry([i \in 1..Len(group) |-> group[i].geometry])]

\* a check of the grouping column only, the legs ordered by "point_time"
create_linestrings_LegOnly(g, flc, ptc) ==
    IF flc \notin g.columns
    THEN [error |-> "KeyError", lines |-> <<>>]
    ELSE IF g.rows = <<>>
    THEN [error |-> "ValueError", lines |-> <<>>]
    ELSE [error |-> "",
          lines |-> [n \in 1..Len(GroupKeys(g.rows, flc)) |->
                        LegRecord(g.rows, GroupKeys(g.rows, flc)[n], flc,
                                  "point_time")]]

\* flc, ptc: the arguments flight_leg_column and point_time_column.  For a
\* table of zero rows the loop appends nothing and gpd.GeoDataFrame([],
\* crs=gdf.crs) raises ValueError: a CRS (process_flight_data set EPSG:4326)
\* cannot be assigned without a geometry column
create_linestrings(g, flc, ptc) ==
    IF flc \notin g.columns \/ ptc \notin g.columns
    THEN [error |-> "KeyError", lines |-> <<>>]
    ELSE IF g.rows = <<>>
    THEN [error |-> "ValueError", lines |-> <<>>]
    ELSE [error |-> "",
          lines |-> [n \in 1..Len(GroupKeys(g.rows, flc)) |->
                        LegRecord(g.rows, GroupKeys(g.rows, flc)[n], flc, ptc)]]

----------------------------------------------------------------------------
(* The inputs of the model *)

\* identifiers as the caller writes them
RawIds == {"a1b2", " A1B2\n", "c3d4", "0d086e"}

RECURSIVE SeqsUpTo(_, _)
SeqsUpTo(S, n) ==
    IF n = 0 THEN {<<>>}
    ELSE LET shorter == SeqsUpTo(S, n - 1)
         IN  shorter \cup {Append(q, x) : q \in {t \in shorter : Len(t) = n - 1}, x \in S}

RawIdLists == SeqsUpTo(RawIds, MaxAircraft) \ {<<>>}

Dates == {Date(2024, 2, 28), Date(2024, 2, 29), Date(2024, 3, 1)}

\* a range of one day in another year
SingleDay == Date(2025, 1, 1)

\* the first day of the ranges get_traces is called with
FetchFrom == Date(2024, 2, 29)

\* epoch seconds a payload is anchored at (the later is within the span of
\* the offsets of the earlier, as with a recent and a historical trace)
BaseTimestamps == {1609459200, 1609459500}

Offsets == {0, 100, 4000}

Thresholds == {3600, 3900}

\* the details of a ping: a dict holding the flight, or nothing
NoDetails == <<>>
Details == {NoDetails, [flight |-> "X "]}

\* altitude: the text "ground" or a number of feet, written as text
Altitudes == {"ground", "1000"}

\* the aircraft flies one route: its position is given by the offset
Ping(t, alt, det) ==
    [time |-> t, lat |-> 34 + (IF t = NaN THEN 0 ELSE t \div 100), lon |-> 0 - 118,
     altitude |-> alt, details |-> det]

Pings == {Ping(t, alt, det) : t \in Offsets \cup {NaN}, alt \in Altitudes, det \in Details}

\* the pings of the payloads the data source serves
ServedPings == {Ping(0, "ground", [flight |-> "X "]), Ping(4000, "1000", NoDetails)}

AllKeys == MetaKeys \cup {"trace"}

Payload(keys, ts, trace) == [keys |-> keys, timestamp |-> ts, trace |-> trace]

Response(failed, status, data) ==
    [failed |-> failed, status_code |-> status, data |-> data]

\* a payload with a trace of one ping, as the repository's test serves it
\* when its keys are "timestamp" and "trace" only
SomePayload ==
    Payload(AllKeys, 1609459200, <<Ping(0, "ground", [flight |-> "X "])>>)

Responses ==
    {Response(TRUE, 0, Payload({}, 0, <<>>))}
    \cup {Response(FALSE, 404, Payload({}, 0, <<>>))}
    \cup {Response(FALSE, 200, Payload({}, 0, <<>>))}
    \cup {Response(FALSE, 200, [SomePayload EXCEPT !.keys = AllKeys \ {"trace"}])}
    \cup {Response(FALSE, 200, [SomePayload EXCEPT !.keys = {"timestamp", "trace"}])}
    \cup {Response(FALSE, 200, Payload(AllKeys, ts, tr)) :
            ts \in BaseTimestamps, tr \in SeqsUpTo(ServedPings, MaxTrace)}

\* mapping_info: None, or a dict from call sign to an attribute that knows
\* the call sign X and not UNKNOWN
NoMapping == <<>>
Mappings == {NoMapping, [X |-> "Operator of X"]}

\* column names handed to create_linestrings: the defaults, a name no table
\* has, and the ping_time of the raw table, which the processed table lacks
LegColumns == {"flight_leg", "leg"}
TimeColumns == {"point_time", "ping_time"}

\* tables handed to process_flight_data directly: rows in any order under
\* the default index 0..n-1.  The first aircraft has the pings of every
\* offset with and without a flight, a ping on the ground, a ping without
\* an offset and a ping of a second, overlapping payload; the second
\* aircraft has the pings of offset 0.
DirectPings(id, ts) ==
    IF id = "a1b2" /\ ts = 1609459200
    THEN {Ping(t, "1000", det) : t \in Offsets, det \in Details}
            \cup {Ping(100, "ground", NoDetails), Ping(NaN, "1000", NoDetails),
                  Ping(0, "ground", [flight |-> "X "])}
    ELSE IF id = "a1b2" THEN {Ping(0, "1000", NoDetails)}
    ELSE IF ts = 1609459200 THEN {Ping(0, "1000", det) : det \in Details}
    ELSE {}

DirectRows ==
    UNION {{[time |-> p.time, lat |-> p.lat, lon |-> p.lon, altitude |-> p.altitude,
             details |-> p.details, timestamp |-> ts,
             ping_time |-> AddSeconds(ts, p.time), icao |-> id, idx |-> 0] :
                p \in DirectPings(id, ts)} :
           id \in {"a1b2", "c3d4"}, ts \in BaseTimestamps}

DirectTables ==
    {DataFrame(TraceColumns, ResetIndex(rws)) :
        rws \in SeqsUpTo(DirectRows, MaxRows) \ {<<>>}}

\* tables with values that do not coerce: a row whose time is not a number
\* and a row whose timestamp pd.to_datetime(errors="coerce") turns into NaT,
\* beside two rows that are in order
CoercionRows ==
    {[time |-> t, lat |-> 34, lon |-> 0 - 118, altitude |-> "1000",
      details |-> [flight |-> "X "], timestamp |-> ts,
      ping_time |-> AddSeconds(ts, t), icao |-> "a1b2", idx |-> 0] :
        t \in {0, 4000, NaN}, ts \in {1609459200}}
    \cup {[time |-> 100, lat |-> 35, lon |-> 0 - 118, altitude |-> "1000",
           details |-> [flight |-> "X "], timestamp |-> NaN,
           ping_time |-> NaN, icao |-> "a1b2", idx |-> 0]}

CoercionTables ==
    {DataFrame(TraceColumns, ResetIndex(rws)) :
        rws \in SeqsUpTo(CoercionRows, MaxRows) \ {<<>>}}

----------------------------------------------------------------------------
(* The caller: one tracer, one call after the other *)

Idle ==
    /\ start_date = NoDate /\ end_date = NoDate /\ recent = FALSE
    /\ urls = <<>> /\ pos = 0 /\ served = <<>> /\ traces = <<>> /\ log = <<>>
    /\ mapping_info = NoMapping /\ threshold = 0 /\ filter_ground = FALSE
    /\ flight_leg_column = "" /\ point_time_column = ""
    /\ gdf = EmptyFrame /\ gdf_lines = <<>> /\ error = ""

\* tracer = FlightTracer(aircraft_ids=given)
Init ==
    /\ given \in RawIdLists
    /\ aircraft_ids = FlightTracer(given).aircraft_ids
    /\ raw_df = EmptyFrame
    /\ Idle
    /\ pc = "ready"

\* tracer.generate_urls(first, last, rec)
GenerateUrls(first, last, rec) ==
    /\ pc = "ready"
    /\ start_date' = first /\ end_date' = last /\ recent' = rec
    /\ urls' = generate_urls(aircraft_ids, first, last, rec)
    /\ pc' = "urls"
    /\ UNCHANGED <<given, aircraft_ids, pos, served, traces, log, raw_df, mapping_info, threshold,
                   filter_ground, gdf, gdf_lines,
                   flight_leg_column, point_time_column, error>>

\* tracer.get_traces(first, last, rec), up to the for loop
GetTracesBegin(first, last, rec) ==
    /\ pc = "ready"
    /\ Len(generate_urls(aircraft_ids, first, last, rec)) <= MaxPairs
    /\ start_date' = first /\ end_date' = last /\ recent' = rec
    /\ urls' = generate_urls(aircraft_ids, first, last, rec)
    /\ pos' = 1 /\ traces' = <<>> /\ log' = <<>> /\ served' = <<>>
    /\ pc' = "fetching"
    /\ UNCHANGED <<given, aircraft_ids, raw_df, mapping_info, threshold, filter_ground, gdf, gdf_lines,
                   flight_leg_column, point_time_column,
                   error>>

\* one pass of the for loop of get_traces, the data source answering response
FetchStep(response) ==
    /\ pc = "fetching" /\ pos <= Len(urls)
    /\ LET res == fetch_trace_data(response, urls[pos].icao)
       IN  /\ served' = Append(served, response)
           /\ IF res.error # ""
              THEN /\ error' = res.error
                   /\ pc' = "get_traces_raised"
                   /\ UNCHANGED <<pos, traces, log>>
              ELSE /\ traces' = IF HasData(res) THEN Append(traces, res.df) ELSE traces
                   /\ log' = Append(log, IF HasData(res) THEN "data found" ELSE "no data")
                   /\ pos' = pos + 1
                   /\ UNCHANGED <<error, pc>>
    /\ UNCHANGED <<given, aircraft_ids, start_date, end_date, recent, urls, raw_df,
                   mapping_info, threshold, filter_ground, gdf, gdf_lines,
                   flight_leg_column, point_time_column>>

\* get_traces after the loop: the return statement
GetTracesReturn ==
    /\ pc = "fetching" /\ pos > Len(urls)
    /\ raw_df' = Aggregate(traces)
    /\ pc' = "table"
    /\ UNCHANGED <<given, aircraft_ids, start_date, end_date, recent, urls, pos, served,
                   traces, log, mapping_info, threshold, filter_ground, gdf, gdf_lines,
                   flight_leg_column, point_time_column, error>>

\* gdf = tracer.process_flight_data(raw_df, mapping_info=mapping,
\*           filter_ground=fg, threshold_seconds=thr); no statement of
\* process_flight_data reads mapping_info
ProcessFlightData(mapping, fg, thr) ==
    /\ pc = "table"
    /\ LET res == process_flight_data(raw_df, fg, thr)
       IN  /\ gdf' = res.gdf
           /\ error' = res.error
           /\ pc' = IF res.error = "" THEN "processed" ELSE "process_raised"
    /\ mapping_info' = mapping /\ threshold' = thr /\ filter_ground' = fg
    /\ UNCHANGED <<given, aircraft_ids, start_date, end_date, recent, urls, pos,
                   served, traces, log, raw_df, gdf_lines, flight_leg_column,
                   point_time_column>>

\* tracer.process_flight_data(gdf, ...) on the table it returned, with the
\* same arguments
Reprocess ==
    /\ pc = "processed"
    /\ LET res == process_flight_data(gdf, filter_ground, threshold)
       IN  /\ gdf' = IF res.error = "" THEN res.gdf ELSE gdf
           /\ error' = res.error
           /\ pc' = IF res.error = "" THEN "reprocessed" ELSE "reprocess_raised"
    /\ UNCHANGED <<given, aircraft_ids, start_date, end_date, recent, urls, pos, served,
                   traces, log, raw_df, mapping_info, threshold, filter_ground, gdf_lines,
                   flight_leg_column, point_time_column>>

\* gdf_lines = tracer.create_linestrings(gdf, flc, ptc)
CreateLinestrings(flc, ptc) ==
    /\ pc = "processed"
    /\ LET res == create_linestrings(gdf, flc, ptc)
       IN  /\ gdf_lines' = res.lines
           /\ error' = res.error
           /\ pc' = IF res.error = "" THEN "lines" ELSE "linestrings_raised"
    /\ flight_leg_column' = flc /\ point_time_column' = ptc
    /\ UNCHANGED <<given, aircraft_ids, start_date, end_date, recent, urls, pos,
                   served, traces, log, raw_df, mapping_info, threshold, filter_ground, gdf>>

Next ==
    \/ \E first \in Dates, last \in Dates : GenerateUrls(first, last, FALSE)
    \/ GenerateUrls(SingleDay, SingleDay, FALSE)
    \/ GenerateUrls(NoDate, NoDate, TRUE)
    \/ \E last \in Dates : GetTracesBegin(FetchFrom, last, FALSE)
    \/ GetTracesBegin(NoDate, NoDate, TRUE)
    \/ \E response \in Responses : FetchStep(response)
    \/ GetTracesReturn
    \/ \E fg \in BOOLEAN, thr \in Thresholds : ProcessFlightData(NoMapping, fg, thr)
    \/ Reprocess
    \/ CreateLinestrings("flight_leg", "point_time")

Spec == Init /\ [][Next]_vars

\* process_flight_data and create_linestrings as functions of the table:
\* the caller holds any table of the bounded family
InitSeg ==
    /\ given = <<>> /\ aircraft_ids = <<>>
    /\ raw_df \in DirectTables
    /\ Idle
    /\ pc = "table"

NextSeg ==
    \/ \E fg \in BOOLEAN, thr \in Thresholds : ProcessFlightData(NoMapping, fg, thr)
    \/ Reprocess
    \/ \E flc \in LegColumns, ptc \in TimeColumns : CreateLinestrings(flc, ptc)

SpecSeg == InitSeg /\ [][NextSeg]_vars

\* process_flight_data on tables with values that do not coerce, with and
\* without a mapping
InitCoerce ==
    /\ given = <<>> /\ aircraft_ids = <<>>
    /\ raw_df \in CoercionTables
    /\ Idle
    /\ pc = "table"

NextCoerce ==
    \/ \E mapping \in Mappings, fg \in BOOLEAN, thr \in Thresholds :
            ProcessFlightData(mapping, fg, thr)
    \/ Reprocess
    \/ CreateLinestrings("flight_leg", "point_time")

SpecCoerce == InitCoerce /\ [][NextCoerce]_vars

\* the constructor as a step of the caller: before it there is no tracer
InitNew ==
    /\ given \in RawIdLists \cup {<<>>}
    /\ aircraft_ids = <<>>
    /\ raw_df = EmptyFrame
    /\ Idle
    /\ pc = "new"

\* tracer = FlightTracer(aircraft_ids=given)
Construct ==
    /\ pc = "new"
    /\ aircraft_ids' = FlightTracer(given).aircraft_ids
    /\ error' = FlightTracer(given).error
    /\ pc' = IF FlightTracer(given).error = "" THEN "ready" ELSE "construct_raised"
    /\ UNCHANGED <<given, start_date, end_date, recent, urls, pos, served, traces,
                   log, raw_df, mapping_info, threshold, filter_ground, gdf, gdf_lines,
                   flight_leg_column, point_time_column>>

NextNew ==
    \/ Construct
    \/ \E first \in Dates, last \in Dates : GenerateUrls(first, last, FALSE)
    \/ GenerateUrls(NoDate, NoDate, TRUE)

SpecNew == InitNew /\ [][NextNew]_vars

----------------------------------------------------------------------------
(* Vocabulary of the properties *)

\* get_traces returned its table to the caller
Returned ==
    pc \in {"table", "processed", "process_raised", "reprocessed",
            "reprocess_raised", "lines", "linestrings_raised"}

\* the row of the raw table with index label l
RawRow(l) == CHOOSE r \in {raw_df.rows[i] : i \in 1..Len(raw_df.rows)} : r.idx = l

\* the one-to-one maps of 1..n onto itself
Perms(n) == {f \in [1..n -> 1..n] : \A i, j \in 1..n : f[i] = f[j] => i = j}

\* date.toordinal()
RECURSIVE DaysBeforeMonth(_, _)
DaysBeforeMonth(y, m) ==
    IF m = 1 THEN 0 ELSE DaysBeforeMonth(y, m - 1) + DaysInMonth(y, m - 1)

ToOrdinal(dt) ==
    LET y == dt.year - 1
    IN  y * 365 + (y \div 4) - (y \div 100) + (y \div 400)
            + DaysBeforeMonth(dt.year, dt.month) + dt.day

\* the date n days after dt, among the days of the months of the model
DaysAfter(dt, n) ==
    CHOOSE x \in {Date(y, m, d) : y \in {2024, 2025}, m \in 1..12, d \in 1..31} :
        x.day <= DaysInMonth(x.year, x.month) /\ ToOrdinal(x) = ToOrdinal(dt) + n

\* the digit of n at the place of value p (1, 10, 100, 1000)
Digit(n, p) == ToString((n \div p) % 10)

\* a day written as YYYY/MM/DD
DatePath(dt) ==
    Digit(dt.year, 1000) \o Digit(dt.year, 100) \o Digit(dt.year, 10)
        \o Digit(dt.year, 1) \o "/" \o Digit(dt.month, 10) \o Digit(dt.month, 1)
        \o "/" \o Digit(dt.day, 10) \o Digit(dt.day, 1)

\* c is the character g, or the small letter of the capital g
FoldsTo(g, c) ==
    IF \E n \in 1..Len(UpperCase) : CharAt(UpperCase, n) = g
    THEN \E n \in 1..Len(UpperCase) :
            CharAt(UpperCase, n) = g /\ CharAt(LowerCase, n) = c
    ELSE c = g

\* stored is the text raw without the whitespace around it, its capitals
\* replaced by small letters
IsTrimmedLower(raw, stored) ==
    \E a \in 1..(Len(raw) + 1) :
        /\ a + Len(stored) - 1 <= Len(raw)
        /\ \A k \in 1..Len(raw) :
              IF k < a \/ k >= a + Len(stored)
              THEN CharAt(raw, k) \in Whitespace
              ELSE FoldsTo(CharAt(raw, k), CharAt(stored, k - a + 1))
        /\ stored # "" =>
              /\ CharAt(stored, 1) \notin Whitespace
              /\ CharAt(stored, Len(stored)) \notin Whitespace

\* the raw rows that process_flight_data keeps, in processing order
Processed == DropNaTime(SortForProcessing(raw_df.rows))

\* the call sign due to the row at position k of Processed: its own trimmed
\* flight, else that of the nearest earlier row that has one, else "UNKNOWN"
DueCallSign(k) ==
    LET has == {j \in 1..k : "flight" \in DOMAIN Processed[j].details}
    IN  IF has = {} THEN "UNKNOWN"
        ELSE Strip(Processed[CHOOSE j \in has : \A h \in has : h <= j].details.flight)

\* the rows of a table without their index labels
Unlabelled(rws) == [i \in 1..Len(rws) |-> [rws[i] EXCEPT !.idx = 0]]

\* the nearest position before i whose row has the icao and call_sign of
\* row i, 0 when there is none
PrevInGroup(rws, i) ==
    LET before == {j \in 1..(i - 1) : rws[j].icao = rws[i].icao
                                        /\ rws[j].call_sign = rws[i].call_sign}
    IN  IF before = {} THEN 0 ELSE CHOOSE j \in before : \A k \in before : k <= j

\* the data source answered with a status other than 200 or without a trace
IsMiss(response) ==
    ~response.failed
        /\ (response.status_code # 200 \/ "trace" \notin response.data.keys)

\* the data source answered 200 with a payload holding a non-empty trace
YieldsTrace(response) ==
    ~response.failed /\ response.status_code = 200
        /\ "trace" \in response.data.keys /\ response.data.trace # <<>>

\* the pings of the i-th pair are rows of the raw table, under its aircraft
PairInTable(i) ==
    \A k \in 1..Len(served[i].data.trace) :
        \E n \in 1..Len(raw_df.rows) :
            /\ raw_df.rows[n].icao = urls[i].icao
            /\ raw_df.rows[n].timestamp = served[i].data.timestamp
            /\ raw_df.rows[n].time = served[i].data.trace[k].time
            /\ raw_df.rows[n].altitude = served[i].data.trace[k].altitude
            /\ raw_df.rows[n].details = served[i].data.trace[k].details

\* the number of pings of the first n pairs that yielded a trace
RECURSIVE PingsYielded(_)
PingsYielded(n) ==
    IF n = 0 THEN 0
    ELSE PingsYielded(n - 1)
            + (IF YieldsTrace(served[n]) THEN Len(served[n].data.trace) ELSE 0)

----------------------------------------------------------------------------
(* Properties *)

\* C1: without ground filtering the output is in processing order (icao,
\* timestamp, time), the first row of every (icao, call_sign) group has leg_id
\* 1, and every later row of the group has the leg_id of the row before it in
\* the group, plus 1 exactly when its point_time is more than
\* threshold_seconds after that row's (a gap equal to the threshold starts no
\* new leg).  A row left without a call sign is in no group.
C1_LegIdsFollowGaps ==
    (pc = "processed" /\ ~filter_ground) =>
        /\ \A i \in 1..(Len(gdf.rows) - 1) :
              ~ProcessingBefore(RawRow(gdf.rows[i + 1].idx), RawRow(gdf.rows[i].idx))
        /\ \A i \in 1..Len(gdf.rows) :
              gdf.rows[i].call_sign # NaNStr =>
                LET j == PrevInGroup(gdf.rows, i)
                IN  IF j = 0 THEN gdf.rows[i].leg_id = 1
                    ELSE IF gdf.rows[i].point_time - gdf.rows[j].point_time > threshold
                    THEN gdf.rows[i].leg_id = gdf.rows[j].leg_id + 1
                    ELSE gdf.rows[i].leg_id = gdf.rows[j].leg_id

\* offsets 0, 100, 4000 of one payload with threshold 3600: leg ids 1, 1, 2
C1_Witness ==
    /\ pc = "processed" /\ ~filter_ground /\ threshold = 3600
    /\ Len(gdf.rows) = 3
    /\ \A i \in 1..3 : gdf.rows[i].icao = "a1b2" /\ gdf.rows[i].call_sign = "X"
    /\ [i \in 1..3 |-> gdf.rows[i].point_time]
            = <<1609459200, 1609459300, 1609463200>>
    /\ [i \in 1..3 |-> gdf.rows[i].leg_id] = <<1, 1, 2>>

\* C2: in the processed table two rows have the same flight_leg exactly when
\* they have the same icao, call_sign and leg_id.
C2_FlightLegKeyUnique ==
    pc = "processed" =>
        \A i, j \in 1..Len(gdf.rows) :
            (gdf.rows[i].flight_leg = gdf.rows[j].flight_leg)
                <=> /\ gdf.rows[i].icao = gdf.rows[j].icao
                    /\ gdf.rows[i].call_sign = gdf.rows[j].call_sign
                    /\ gdf.rows[i].leg_id = gdf.rows[j].leg_id

\* C3: the rows returned with filter_ground=True are the rows returned with
\* filter_ground=False whose altitude is not "ground", in the same order and
\* each with the same leg_id and flight_leg.
C3_GroundFilterKeepsLegs ==
    (pc = "processed" /\ filter_ground) =>
        LET full == process_flight_data(raw_df, FALSE, threshold).gdf.rows
            kept == {i \in 1..Len(full) : full[i].altitude # "ground"}
        IN  /\ Len(gdf.rows) = Cardinality(kept)
            /\ \A i \in kept :
                  gdf.rows[Cardinality({h \in kept : h <= i})] = full[i]

\* a ping on the ground was dropped between two pings of one leg that are
\* more than the threshold apart
C3_Witness ==
    /\ pc = "processed" /\ filter_ground
    /\ Len(gdf.rows) < Len(raw_df.rows)
    /\ \E k \in 1..(Len(gdf.rows) - 1) :
          /\ gdf.rows[k].icao = gdf.rows[k + 1].icao
          /\ gdf.rows[k].call_sign = gdf.rows[k + 1].call_sign
          /\ gdf.rows[k].leg_id = gdf.rows[k + 1].leg_id
          /\ gdf.rows[k + 1].point_time - gdf.rows[k].point_time > threshold

\* C4: process_flight_data applied to the table it returned, with the same
\* threshold, completes without error and leaves every row its leg_id and
\* flight_leg.
C4_ReprocessIdempotent ==
    pc \in {"reprocessed", "reprocess_raised"} =>
        /\ error = ""
        /\ gdf = process_flight_data(raw_df, filter_ground, threshold).gdf

\* C5: create_linestrings returns exactly one record per distinct flight_leg;
\* its geometry runs through the points of that leg in ascending point_time
\* order, as a LineString for two or more points and as the point itself for
\* one.
C5_OneOrderedGeometryPerLeg ==
    pc = "lines" =>
        /\ {gdf_lines[n].flight_leg : n \in 1..Len(gdf_lines)}
              = {gdf.rows[i].flight_leg : i \in 1..Len(gdf.rows)}
        /\ \A m, n \in 1..Len(gdf_lines) :
              gdf_lines[m].flight_leg = gdf_lines[n].flight_leg => m = n
        /\ \A n \in 1..Len(gdf_lines) :
              LET leg == SelectSeq(gdf.rows,
                            LAMBDA r : r.flight_leg = gdf_lines[n].flight_leg)
                  geo == gdf_lines[n].geometry
              IN  /\ Len(geo.coords) = Len(leg)
                  /\ geo.type = IF Len(leg) >= 2 THEN "LineString" ELSE "Point"
                  /\ \E f \in Perms(Len(leg)) :
                        /\ \A k \in 1..Len(leg) : geo.coords[k] = leg[f[k]].geometry
                        /\ \A k \in 1..(Len(leg) - 1) :
                              leg[f[k]].point_time <= leg[f[k + 1]].point_time

\* a leg of one point beside a leg whose points are not in point_time order
\* in the table
C5_Witness ==
    /\ pc = "lines"
    /\ \E n \in 1..Len(gdf_lines) : gdf_lines[n].geometry.type = "Point"
    /\ \E i \in 1..Len(gdf.rows), j \in 1..Len(gdf.rows) :
          /\ i < j
          /\ gdf.rows[i].flight_leg = gdf.rows[j].flight_leg
          /\ gdf.rows[i].point_time > gdf.rows[j].point_time
          /\ gdf.rows[i].geometry # gdf.rows[j].geometry

\* C6: generate_urls returns its pairs grouped by aircraft in the order of
\* the identifier list; in range mode with start_date <= end_date each
\* aircraft has (end_date - start_date).days + 1 pairs, one per day of the
\* range in ascending order, and in recent mode one pair.
C6_UrlsPerAircraft ==
    (pc # "ready" /\ aircraft_ids # <<>>
            /\ (recent \/ ToOrdinal(start_date) <= ToOrdinal(end_date))) =>
        LET days == IF recent THEN 1
                    ELSE ToOrdinal(end_date) - ToOrdinal(start_date) + 1
        IN  /\ Len(urls) = days * Len(aircraft_ids)
            /\ \A a \in 1..Len(aircraft_ids), d \in 1..days :
                  LET u == urls[(a - 1) * days + d]
                  IN  /\ u.icao = aircraft_ids[a]
                      /\ u.url = IF recent THEN RecentUrl(aircraft_ids[a])
                                 ELSE HistoricalUrl(aircraft_ids[a],
                                                    DaysAfter(start_date, d - 1))

\* two aircraft over the three days 2024-02-28 .. 2024-03-01: six pairs
C6_Witness ==
    /\ pc = "urls" /\ ~recent
    /\ Len(aircraft_ids) = 2 /\ aircraft_ids[1] # aircraft_ids[2]
    /\ start_date = Date(2024, 2, 28) /\ end_date = Date(2024, 3, 1)
    /\ Len(urls) = 6

\* C7: a response with a status other than 200, or whose payload has no
\* "trace", raises nothing: the pair is logged as having no data, the loop
\* goes on to the next pair, and when get_traces returns every pair was
\* fetched and the pings of the pairs that yielded a trace are in the table.
C7_FetchMissAbsorbed ==
    /\ \A i \in 1..Len(served) :
          IsMiss(served[i]) =>
            /\ fetch_trace_data(served[i], urls[i].icao).error = ""
            /\ fetch_trace_data(served[i], urls[i].icao).none
            /\ i <= Len(log) /\ log[i] = "no data"
            /\ pos > i
    /\ Returned /\ urls # <<>> =>
          /\ Len(served) = Len(urls)
          /\ \A i \in 1..Len(served) : YieldsTrace(served[i]) => PairInTable(i)

\* get_traces returned a table with rows after a miss on its first pair
C7_Witness ==
    /\ pc = "table" /\ Len(served) = 2
    /\ IsMiss(served[1]) /\ YieldsTrace(served[2])
    /\ raw_df.rows # <<>>
    /\ log = <<"no data", "data found">>

\* C8: once every pair was answered by the data source, get_traces returns a
\* table that has rows exactly when some pair yielded a payload with a
\* non-empty trace, that holds the pings of those payloads and nothing else,
\* each under the identifier of its pair, and that is the empty table
\* otherwise.
C8_TableIffSomeTrace ==
    (pc # "fetching" /\ urls # <<>> /\ Len(served) = Len(urls)
            /\ \A i \in 1..Len(served) : ~served[i].failed) =>
        /\ Returned
        /\ raw_df.rows # <<>> <=> \E i \in 1..Len(served) : YieldsTrace(served[i])
        /\ Len(raw_df.rows) = PingsYielded(Len(served))
        /\ \A i \in 1..Len(served) : YieldsTrace(served[i]) => PairInTable(i)
        /\ \A n \in 1..Len(raw_df.rows) :
              \E a \in 1..Len(aircraft_ids) : raw_df.rows[n].icao = aircraft_ids[a]

\* C9: the table get_traces returns is the same, row for row, whatever the
\* order in which the collected payloads were appended.
C9_OrderIndependent ==
    Returned /\ urls # <<>> =>
        \A f \in Perms(Len(traces)) :
            Unlabelled(Aggregate([i \in 1..Len(traces) |-> traces[f[i]]]).rows)
                = Unlabelled(raw_df.rows)

\* C10: no exception escapes get_traces, whatever the data source does.
C10_NoExceptionEscapes ==
    pc # "get_traces_raised"

\* C11: when get_traces collected pings that are all on the ground and
\* filter_ground is set, process_flight_data returns a table of zero rows
\* without raising; the caller can tell this from a fetch miss: here the raw
\* table has rows and the result has its columns, whereas after a run in which
\* no pair yielded a trace the raw table is the empty table without columns
\* and process_flight_data returns no table for it.
C11_AllGroundVersusMiss ==
    /\ (pc = "processed" /\ filter_ground /\ raw_df.rows # <<>>
            /\ \A i \in 1..Len(raw_df.rows) : raw_df.rows[i].altitude = "ground") =>
          /\ error = ""
          /\ gdf.rows = <<>>
          /\ gdf.columns # {}
          /\ \E i \in 1..Len(served) : YieldsTrace(served[i])
    /\ (pc \in {"table", "processed", "process_raised"} /\ urls # <<>>
            /\ \A i \in 1..Len(served) : ~YieldsTrace(served[i])) =>
          /\ raw_df = EmptyFrame
          /\ pc # "processed"

\* a payload of two pings on the ground was fetched and processed with the
\* ground filter
C11_Witness ==
    /\ pc = "processed" /\ filter_ground
    /\ Len(raw_df.rows) = 2
    /\ \A i \in 1..Len(raw_df.rows) : raw_df.rows[i].altitude = "ground"
    /\ gdf.rows = <<>>

\* C12: in range mode every location is the historical base, the day as
\* YYYY/MM/DD, "/traces/", the last two characters of the canonical
\* identifier, "/trace_full_", the canonical identifier and ".json", for a day
\* of the range; in recent mode it is the recent base, the two characters,
\* "/trace_full_", the identifier and ".json", with no date path.  Aircraft
\* 0d086e over 2025-01-01 .. 2025-01-01 has exactly one location,
\* .../globe_history/2025/01/01/traces/6e/trace_full_0d086e.json.
C12_LocationFormat ==
    /\ pc # "ready" =>
          \A k \in 1..Len(urls) :
            LET id == urls[k].icao
                tail == SubSeq(id, Len(id) - 1, Len(id)) \o "/trace_full_" \o id \o ".json"
            IN  /\ \E a \in 1..Len(aircraft_ids) : aircraft_ids[a] = id
                /\ IF recent
                   THEN urls[k].url = "https://globe.adsbexchange.com/data/traces/" \o tail
                   ELSE \E d \in Dates \cup {SingleDay} :
                          /\ ToOrdinal(start_date) <= ToOrdinal(d)
                          /\ ToOrdinal(d) <= ToOrdinal(end_date)
                          /\ urls[k].url =
                                "https://globe.adsbexchange.com/globe_history/"
                                    \o DatePath(d) \o "/traces/" \o tail
    /\ (pc = "urls" /\ ~recent /\ aircraft_ids = <<"0d086e">>
            /\ start_date = Date(2025, 1, 1) /\ end_date = Date(2025, 1, 1)) =>
          urls = <<[url |-> "https://globe.adsbexchange.com/globe_history/2025/01/01/traces/6e/trace_full_0d086e.json",
                    icao |-> "0d086e"]>>
    /\ (pc = "urls" /\ recent /\ aircraft_ids = <<"0d086e">>) =>
          urls = <<[url |-> "https://globe.adsbexchange.com/data/traces/6e/trace_full_0d086e.json",
                    icao |-> "0d086e"]>>

\* generate_urls ran for aircraft 0d086e over the single day 2025-01-01
C12_Witness ==
    /\ pc = "urls" /\ ~recent /\ aircraft_ids = <<"0d086e">>
    /\ start_date = Date(2025, 1, 1) /\ end_date = Date(2025, 1, 1)
    /\ Len(urls) = 1

\* C13: the constructor called without identifiers raises ValueError and
\* leaves no tracer: no identifier is stored and no location is ever built;
\* called with identifiers it succeeds and stores, in the same order, each
\* identifier without its surrounding whitespace and with its capitals
\* replaced by small letters.
C13_ConstructorContract ==
    pc # "new" =>
        IF given = <<>>
        THEN pc = "construct_raised" /\ error = "ValueError"
                /\ aircraft_ids = <<>> /\ urls = <<>>
        ELSE /\ pc # "construct_raised" /\ error = ""
             /\ Len(aircraft_ids) = Len(given)
             /\ \A i \in 1..Len(given) : IsTrimmedLower(given[i], aircraft_ids[i])
             /\ given = <<" A1B2\n", "c3d4">> => aircraft_ids = <<"a1b2", "c3d4">>

\* a tracer built from an identifier with capitals and surrounding whitespace
\* followed by a plain one
C13_Witness ==
    /\ pc = "ready"
    /\ given = <<" A1B2\n", "c3d4">>
    /\ aircraft_ids = <<"a1b2", "c3d4">>

\* C14: create_linestrings raises KeyError and returns no geometries exactly
\* when flight_leg_column or point_time_column is not a column of its input
\* table; with both present it does not raise KeyError, and for a table that
\* has rows it raises nothing.
C14_MissingColumnRaises ==
    pc \in {"lines", "linestrings_raised"} =>
        IF flight_leg_column \notin gdf.columns \/ point_time_column \notin gdf.columns
        THEN pc = "linestrings_raised" /\ error = "KeyError" /\ gdf_lines = <<>>
        ELSE /\ error # "KeyError"
             /\ gdf.rows # <<>> => pc = "lines" /\ error = ""

\* the grouping column is present and the time column is not
C14_Witness ==
    /\ pc = "linestrings_raised"
    /\ flight_leg_column \in gdf.columns
    /\ point_time_column \notin gdf.columns
    /\ gdf.rows # <<>>

\* C15: every row of the processed table carries the trimmed flight of its
\* own details when it has one, otherwise that of the nearest earlier row in
\* processing order that has one, otherwise "UNKNOWN"; no call_sign is
\* missing.  This for every input table, whatever the order of its index
\* labels and whether or not rows were dropped for their offset.
C15_CallSignOfOwnRow ==
    pc = "processed" =>
        \A i \in 1..Len(gdf.rows) :
            /\ gdf.rows[i].call_sign \notin {NaNStr, ""}
            /\ \A k \in 1..Len(Processed) :
                  Processed[k].idx = gdf.rows[i].idx =>
                      gdf.rows[i].call_sign = DueCallSign(k)

\* C16: without ground filtering, two points of one (icao, call_sign, leg_id)
\* that follow each other when the leg is ordered by point_time are at most
\* threshold_seconds apart, also when the table merges payloads whose offsets
\* overlap in time.
C16_NoGapInsideLeg ==
    (pc = "processed" /\ ~filter_ground) =>
        \A i, j \in 1..Len(gdf.rows) :
            LET a == gdf.rows[i]
                b == gdf.rows[j]
            IN  (/\ a.call_sign # NaNStr
                 /\ a.icao = b.icao /\ a.call_sign = b.call_sign /\ a.leg_id = b.leg_id
                 /\ a.point_time < b.point_time
                 /\ ~\E k \in 1..Len(gdf.rows) :
                        /\ gdf.rows[k].icao = a.icao
                        /\ gdf.rows[k].call_sign = a.call_sign
                        /\ gdf.rows[k].leg_id = a.leg_id
                        /\ a.point_time < gdf.rows[k].point_time
                        /\ gdf.rows[k].point_time < b.point_time)
                    => b.point_time - a.point_time <= threshold

\* C17: process_flight_data does not raise on a table holding a row whose
\* time is not a number or whose timestamp cannot be parsed; no such row is in
\* the output, and every other row (not on the ground, when the ground filter
\* is set) is in the output with a point_time.
C17_UncoercibleRowsDropped ==
    pc \in {"processed", "process_raised"} =>
        /\ pc = "processed"
        /\ \A n \in 1..Len(raw_df.rows) :
              LET r == raw_df.rows[n]
                  out == {i \in 1..Len(gdf.rows) : gdf.rows[i].idx = r.idx}
              IN  IF r.time = NaN \/ r.timestamp = NaN
                  THEN out = {}
                  ELSE (~filter_ground \/ r.altitude # "ground") =>
                          /\ Cardinality(out) = 1
                          /\ \A i \in out : gdf.rows[i].point_time # NaN

\* C18: called with a mapping from call sign to an attribute,
\* process_flight_data returns the rows it returns without the mapping, in the
\* same order, and exactly one column more, which holds the attribute mapped
\* from the row's call_sign.
C18_MappingAddsColumn ==
    (pc = "processed" /\ mapping_info # NoMapping) =>
        LET plain == process_flight_data(raw_df, filter_ground, threshold).gdf
        IN  /\ error = ""
            /\ Len(gdf.rows) = Len(plain.rows)
            /\ \A i \in 1..Len(gdf.rows) : gdf.rows[i].idx = plain.rows[i].idx
            /\ Cardinality(gdf.columns \ (OutputColumns \cup {"geometry"})) = 1

\* C19: in the table get_traces returns, every row placed before another has
\* a base timestamp less than or equal to the other's, in whatever order the
\* payloads were collected.
C19_SortedByBaseTimestamp ==
    Returned =>
        \A i, j \in 1..Len(raw_df.rows) :
            i < j => raw_df.rows[i].timestamp <= raw_df.rows[j].timestamp

\* the payload collected second has the earlier base timestamp
C19_Witness ==
    /\ pc = "table" /\ Len(traces) = 2
    /\ traces[1].rows[1].timestamp > traces[2].rows[1].timestamp
    /\ raw_df.rows[1].timestamp = traces[2].rows[1].timestamp
    /\ raw_df.rows[1].timestamp < raw_df.rows[Len(raw_df.rows)].timestamp

====
